---- MODULE Spec2Model ----
(***************************************************************************)
(* A state-machine model of spla's execution core: the accelerator masked  *)
(* vector-matrix product, the host masked vector assign, the element-wise  *)
(* vector add, the typed matrix TMatrix<T> and its storage manager, the    *)
(* MatrixLoader of the utilities, the expression scheduler, and the        *)
(* work-group sizing and command queue of the accelerator kernels.         *)
(*                                                                         *)
(* Every behaviour exercises one of these objects; `unit` names it.  Each  *)
(* object has a specification of its own: SpecVxm, SpecAssign, SpecEWise,  *)
(* SpecBuild (build and read alone), SpecMatrix (every operation),         *)
(* SpecLoader, SpecExpr, SpecEWiseBlocks (several block rows),             *)
(* SpecDispatch, SpecManager and SpecQueue.                                *)
(***************************************************************************)
EXTENDS Integers, Sequences, FiniteSets, TLC

VARIABLES
    unit,       \* which object this behaviour exercises
    algo_vxm,   \* the Algo_vxm_masked_cl object: m_compiled, m_program
    vxm,        \* operands, result and status of the masked vxm tasks
    assign,     \* operands, result and status of the masked assign tasks
    ewise,      \* operands, result and sub-task status of the element-wise add node
    mat,        \* the m_storage of a TMatrix<T>: formats, valid set, fill value
    mat_io,     \* the caller's side of TMatrix: the arrays it builds from, the
                \* last call, its status and what it returned
    loader,     \* a MatrixLoader: mRows, mCols, mVals, mNrows, mNcols
    load_io,    \* the caller's side of MatrixLoader: the last input and outcome
    expr,       \* an expression: its state, its nodes, their dependencies and
                \* sub-tasks, and the device work its nodes have in flight
    dispatch,   \* the group counts the accelerator kernels were dispatched with
    manager,    \* the static storage_manager of TMatrix<T> and the workers calling validate_*
    queue       \* the default command queue during execute_scalar: the host's position, the kernels in flight and the buffer of r

vars == <<unit, algo_vxm, vxm, assign, ewise, mat, mat_io, loader, load_io, expr, dispatch, manager, queue>>

(***************************************************************************)
(* Values and operators.  An element type T is modelled by the residues    *)
(* modulo a small modulus; NoEntry marks a position holding no entry.      *)
(***************************************************************************)
NoEntry == 0 - 1

\* TOpBinary<T,T,T>::function of the built-in operators, over residues mod m.
ApplyBinary(op, a, b, m) ==
    CASE op = "PLUS"   -> (a + b) % m
      [] op = "MULT"   -> (a * b) % m
      [] op = "MIN"    -> IF a < b THEN a ELSE b
      [] op = "MAX"    -> IF a < b THEN b ELSE a
      [] op = "FIRST"  -> a
      [] op = "SECOND" -> b

\* TOpSelect<T>::function of the built-in selection predicates.
ApplySelect(op, x) ==
    CASE op = "NQZERO" -> x # 0
      [] op = "EQZERO" -> x = 0
      [] op = "ALWAYS" -> TRUE
      [] op = "NEVER"  -> FALSE

\* The operators the tasks of the model draw from.
OpsMultiply == {"MULT", "PLUS"}
OpsAdd      == {"PLUS", "MAX"}
OpsSelect   == {"NQZERO", "EQZERO"}
OpsAssign   == {"SECOND", "MIN"}

(***************************************************************************)
(* Vectors TVector<T> with their storage bundle: the host formats CpuCoo   *)
(* (Ai, Ax in increasing index order) and CpuDense (Ax, gaps hold the fill *)
(* value), and the set of formats that are valid.                          *)
(***************************************************************************)
AssignN == 4
AssignIdx == 0..(AssignN - 1)
AssignIdxSeq == [k \in 1..AssignN |-> k - 1]
AssignVal == {0, 7}
MaskVal == {0, 1}
AssignMod == 8

\* Dense conversion: positions without an entry hold the fill value.
vec_coo_to_dense(x) ==
    [i \in AssignIdx |->
        IF \E k \in 1..Len(x.coo) : x.coo[k][1] = i
        THEN (CHOOSE e \in {x.coo[k] : k \in 1..Len(x.coo)} : e[1] = i)[2]
        ELSE x.fill]

\* Sparse conversion: the positions that differ from the fill value, in
\* increasing index order.
vec_dense_to_coo(x) ==
    LET is == SelectSeq(AssignIdxSeq, LAMBDA i : x.dense[i] # x.fill)
    IN  [k \in 1..Len(is) |-> <<is[k], x.dense[is[k]]>>]

vec_empty(x, format) ==
    IF format = "CpuCoo" THEN [x EXCEPT !.coo = <<>>]
    ELSE [x EXCEPT !.dense = [i \in AssignIdx |-> x.fill]]

\* TVector::is_valid
vec_is_valid(x, format) == format \in x.valid

\* TVector::validate_rw: `format` is made valid, converting from a valid
\* format when there is one; a vector with no valid format is empty.
vec_validate_rw(x, format) ==
    IF format \in x.valid THEN x
    ELSE IF x.valid = {} THEN [vec_empty(x, format) EXCEPT !.valid = {format}]
    ELSE IF format = "CpuCoo"
         THEN [x EXCEPT !.coo = vec_dense_to_coo(x), !.valid = @ \cup {format}]
         ELSE [x EXCEPT !.dense = vec_coo_to_dense(x), !.valid = @ \cup {format}]

\* TVector::validate_rwd: every format is invalidated, `format` is made
\* valid and empty.
vec_validate_rwd(x, format) == [vec_empty(x, format) EXCEPT !.valid = {format}]

\* The content of a vector as its users see it: one value per index.
vec_content(x) ==
    IF "CpuDense" \in x.valid THEN x.dense
    ELSE IF "CpuCoo" \in x.valid THEN vec_coo_to_dense(x)
    ELSE [i \in AssignIdx |-> x.fill]

(***************************************************************************)
(* Masked vector assign on the host (cpu_v_assign.hpp).                    *)
(***************************************************************************)
\* The loop of execute_sp2dn over the entries idx..N of the sparse mask.
RECURSIVE sp2dn_loop(_, _, _, _, _, _)
sp2dn_loop(Ax, mask_coo, idx, op_assign, op_select, assign_value) ==
    IF idx > Len(mask_coo) THEN Ax
    ELSE LET i == mask_coo[idx][1]
             x == mask_coo[idx][2]
             Ax1 == IF ApplySelect(op_select, x)
                    THEN [Ax EXCEPT ![i] = ApplyBinary(op_assign, Ax[i], assign_value, AssignMod)]
                    ELSE Ax
         IN  sp2dn_loop(Ax1, mask_coo, idx + 1, op_assign, op_select, assign_value)

\* The loop of execute_dn2dn over the indices i..N-1 of r.
RECURSIVE dn2dn_loop(_, _, _, _, _, _)
dn2dn_loop(Ax, mask_dense, i, op_assign, op_select, assign_value) ==
    IF i >= AssignN THEN Ax
    ELSE LET Ax1 == IF ApplySelect(op_select, mask_dense[i])
                    THEN [Ax EXCEPT ![i] = ApplyBinary(op_assign, Ax[i], assign_value, AssignMod)]
                    ELSE Ax
         IN  dn2dn_loop(Ax1, mask_dense, i + 1, op_assign, op_select, assign_value)

\* Algo_v_assign_masked_cpu::execute_sp2dn
execute_sp2dn(t, value, op_assign, op_select) ==
    LET r    == vec_validate_rwd(t.r, "CpuDense")
        mask == vec_validate_rw(t.mask, "CpuCoo")
    IN  [t EXCEPT !.r = [r EXCEPT !.dense =
                            sp2dn_loop(r.dense, mask.coo, 1, op_assign, op_select, value)],
                  !.mask = mask, !.variant = "sp2dn", !.status = "Ok"]

\* Algo_v_assign_masked_cpu::execute_dn2dn
execute_dn2dn(t, value, op_assign, op_select) ==
    LET r    == vec_validate_rwd(t.r, "CpuDense")
        mask == vec_validate_rw(t.mask, "CpuDense")
    IN  [t EXCEPT !.r = [r EXCEPT !.dense =
                            dn2dn_loop(r.dense, mask.dense, 0, op_assign, op_select, value)],
                  !.mask = mask, !.variant = "dn2dn", !.status = "Ok"]

\* Algo_v_assign_masked_cpu::execute: the variant follows the mask's valid
\* format.
execute_assign(t, value, op_assign, op_select) ==
    IF vec_is_valid(t.mask, "CpuCoo") THEN execute_sp2dn(t, value, op_assign, op_select)
    ELSE IF vec_is_valid(t.mask, "CpuDense") THEN execute_dn2dn(t, value, op_assign, op_select)
    ELSE execute_sp2dn(t, value, op_assign, op_select)

\* One masked assign task r[i] = op_assign(r[i], value) where op_select(mask[i]).
AssignExecute ==
    /\ unit = "assign"
    /\ \E value \in AssignVal, op_assign \in OpsAssign, op_select \in OpsSelect :
          assign' = execute_assign(
                        [assign EXCEPT !.value = value, !.op_assign = op_assign,
                                       !.op_select = op_select,
                                       !.r_old = vec_content(assign.r),
                                       !.mask_old = vec_content(assign.mask)],
                        value, op_assign, op_select)
    /\ UNCHANGED <<unit, algo_vxm, vxm, ewise, mat, mat_io, loader, load_io, expr, dispatch, manager, queue>>

AssignIdle ==
    [r |-> [fill |-> 0, valid |-> {}, coo |-> <<>>, dense |-> [i \in AssignIdx |-> 0]],
     mask |-> [fill |-> 0, valid |-> {}, coo |-> <<>>, dense |-> [i \in AssignIdx |-> 0]],
     value |-> 0, op_assign |-> "none", op_select |-> "none",
     r_old |-> [i \in AssignIdx |-> 0], mask_old |-> [i \in AssignIdx |-> 0],
     variant |-> "none", status |-> "none"]

\* A mask with the entries e (NoEntry where there is none), held in the
\* formats `valid`.
MaskOf(e, valid) ==
    LET x0 == [fill |-> 0, valid |-> {"CpuCoo"},
               coo |-> LET is == SelectSeq(AssignIdxSeq, LAMBDA i : e[i] # NoEntry)
                       IN  [k \in 1..Len(is) |-> <<is[k], e[is[k]]>>],
               dense |-> [i \in AssignIdx |-> 0]]
    IN  [fill |-> 0, valid |-> valid,
         coo |-> IF "CpuCoo" \in valid THEN x0.coo ELSE <<>>,
         dense |-> IF "CpuDense" \in valid THEN vec_coo_to_dense(x0)
                   ELSE [i \in AssignIdx |-> 0]]

(***************************************************************************)
(* Element-wise vector add (SplaVectorEWiseAdd.cpp).  A vector's storage   *)
(* maps each block row to a VectorCOO block (rows in increasing order and  *)
(* one value per row) or to no block at all (a null RefPtr).               *)
(***************************************************************************)
EWLen == 3
MaxBlockRows == 2
EWIdx == 0..(EWLen - 1)
EWIdxSeq == [k \in 1..EWLen |-> k - 1]
AVals == {1, 3}
BVals == {2, 5}
GarbageVal == {0} \cup BVals    \* what an uninitialised value may read as

NullBlock == [null |-> TRUE, rows |-> <<>>, vals |-> <<>>]
NullRows  == [null |-> TRUE, seq |-> <<>>]

\* The VectorCOO block holding e[i] at every index i where e[i] # NoEntry.
BlockOf(e) ==
    LET is == SelectSeq(EWIdxSeq, LAMBDA i : e[i] # NoEntry)
    IN  [null |-> FALSE, rows |-> is, vals |-> [k \in 1..Len(is) |-> e[is[k]]]]

\* compute::copy_n(counting_iterator(0), nnz, perm.begin()): 0, 1, .., nnz-1
IdentityPerm(nnz) == [k \in 1..nnz |-> k - 1]

\* The positions of blockRows whose index is a row of the mask, in order.
Survivors(maskRows, blockRows) ==
    SelectSeq([k \in 1..Len(blockRows) |-> k],
              LAMBDA k : \E m \in 1..Len(maskRows) : maskRows[m] = blockRows[k])

\* MaskByKey: the semi-join of the block's rows with the mask's rows; the
\* surviving rows go to tmpRows, their permutation indices to the front of
\* perm, and their number is returned.
MaskByKey(maskRows, blockRows, perm) ==
    LET p == Survivors(maskRows, blockRows)
    IN  [count   |-> Len(p),
         tmpRows |-> [k \in 1..Len(p) |-> blockRows[p[k]]],
         perm    |-> [k \in 1..Len(perm) |->
                        IF k <= Len(p) /\ p[k] <= Len(perm) THEN perm[p[k]] ELSE perm[k]]]

\* The lambda applyMask: `out` stays null for a null block, is the block's
\* own rows when there is no mask block, and the masked rows otherwise.
applyMask(block, perm, maskBlock) ==
    IF block.null THEN [out |-> NullRows, perm |-> perm]
    ELSE IF maskBlock.null
         THEN [out |-> [null |-> FALSE, seq |-> block.rows], perm |-> perm]
         ELSE LET m == MaskByKey(maskBlock.rows, block.rows, perm)
              IN  [out |-> [null |-> FALSE, seq |-> m.tmpRows], perm |-> m.perm]

\* The lambda setResult: the block stored as block i of w.  Gather fills
\* newVals[k] with vals[perm[k]] for the k that perm covers; the values perm
\* does not cover stay uninitialised (garbage).
setResult(block, rows, perm, garbage) ==
    [null |-> FALSE,
     rows |-> rows.seq,
     vals |-> [k \in 1..Len(rows.seq) |->
                 IF k <= Len(perm) /\ perm[k] + 1 <= Len(block.vals)
                 THEN block.vals[perm[k] + 1]
                 ELSE garbage[k]]]

\* A sub-task that stores what it computed from block i as block 1 of w.
process_into_first_block(t, i, permA, permB, garbage) ==
    LET maskBlock == IF t.mask.present THEN t.mask.blocks[i] ELSE NullBlock
        mA        == applyMask(t.a[i], permA, maskBlock)
        mB        == applyMask(t.b[i], permB, maskBlock)
        afterA    == IF ~mA.out.null THEN setResult(t.a[i], mA.out, mA.perm, garbage)
                     ELSE NullBlock
        afterB    == IF ~mB.out.null THEN setResult(t.b[i], mB.out, mB.perm, garbage)
                     ELSE afterA
    IN  IF mA.out.null \/ mB.out.null
        THEN [t EXCEPT !.w[1] = afterB, !.status[i] = "stored"]
        ELSE [t EXCEPT !.status[i] = "merge_todo"]

\* The sub-task of block i from the masking on (lines 103-177), given the
\* two permutation vectors.
ProcessMasked(t, i, permA, permB, garbage) ==
    LET blockA    == t.a[i]
        blockB    == t.b[i]
        maskBlock == IF t.mask.present THEN t.mask.blocks[i] ELSE NullBlock
        mA        == applyMask(blockA, permA, maskBlock)
        mB        == applyMask(blockB, permB, maskBlock)
        rowsA     == mA.out
        rowsB     == mB.out
        removed   == NullBlock
        afterA    == IF ~rowsA.null THEN setResult(blockA, rowsA, mA.perm, garbage)
                     ELSE removed
        afterB    == IF ~rowsB.null THEN setResult(blockB, rowsB, mB.perm, garbage)
                     ELSE afterA
    IN  IF rowsA.null \/ rowsB.null
        THEN [t EXCEPT !.w[i] = afterB, !.status[i] = "stored"]
        ELSE [t EXCEPT !.status[i] = "merge_todo"]

\* The sub-task VectorEWiseAdd::Process emits for block i.  With block a
\* present and block b null, line 98 calls GetNvals through a null RefPtr:
\* the sub-task either dies there or reads some count and goes on.  permB
\* and null_read record the permutation vector of b as filled and whether
\* the null block was read.
ProcessBlock(t, i, crash, garbage) ==
    LET blockA == t.a[i]
        blockB == t.b[i]
        permA  == IF ~blockA.null THEN IdentityPerm(Len(blockA.rows)) ELSE <<>>
        permB  == IF ~blockA.null /\ ~blockB.null
                  THEN IdentityPerm(Len(blockB.rows)) ELSE <<>>
        t1     == [t EXCEPT !.permB[i] = permB,
                            !.null_read[i] = ~blockA.null /\ blockB.null]
    IN  IF ~blockA.null /\ blockB.null /\ crash
        THEN [t1 EXCEPT !.status[i] = "crashed"]
        ELSE ProcessMasked(t1, i, permA, permB, garbage)

\* Whether the sub-task of block i reads a value that was never written.
ReadsGarbage(t, i) == t.a[i].null /\ ~t.b[i].null

NoGarbage == [k \in 1..EWLen |-> 0]

EWiseProcess ==
    /\ unit = "ewise"
    /\ \E i \in DOMAIN ewise.w :
          /\ ewise.status[i] = "none"
          /\ \E crash \in BOOLEAN :
             \E garbage \in IF ReadsGarbage(ewise, i)
                            THEN [1..EWLen -> GarbageVal] ELSE {NoGarbage} :
                /\ crash => (~ewise.a[i].null /\ ewise.b[i].null)
                /\ ewise' = ProcessBlock(ewise, i, crash, garbage)
    /\ UNCHANGED <<unit, algo_vxm, vxm, assign, mat, mat_io, loader, load_io, expr, dispatch, manager, queue>>

EWiseIdle ==
    [a |-> <<NullBlock>>, b |-> <<NullBlock>>,
     mask |-> [present |-> FALSE, blocks |-> <<NullBlock>>],
     w |-> <<NullBlock>>, w_old |-> <<NullBlock>>, status |-> <<"idle">>,
     permB |-> <<<<>>>>, null_read |-> <<FALSE>>]

\* VectorEWiseAdd::Process: one sub-task is emitted for every block row of w.
Process(a, b, mask, w) ==
    [a |-> a, b |-> b, mask |-> mask, w |-> w, w_old |-> w,
     status |-> [i \in 1..Len(w) |-> "none"],
     permB |-> [i \in 1..Len(w) |-> <<>>],
     null_read |-> [i \in 1..Len(w) |-> FALSE]]

\* The blocks an operand may hold: none, or a block over EWIdx with values
\* from vals.
BlocksOver(vals) == {NullBlock} \cup {BlockOf(e) : e \in [EWIdx -> vals \cup {NoEntry}]}

\* What block i of w may hold before the node runs.
StaleBlocks == {NullBlock, BlockOf([i \in EWIdx |-> IF i = 0 THEN 5 ELSE NoEntry])}

(***************************************************************************)
(* The typed matrix TMatrix<T> (tmatrix.hpp) over its storage bundle.      *)
(* The formats are those its operations name.  CpuCoo holds the three      *)
(* arrays Ai, Aj, Ax as they were written; CpuLil and CpuDok hold one      *)
(* value per key, kept here as triples <<row, col, value>> in (row, col)   *)
(* order.  A stale format keeps what it held.                              *)
(***************************************************************************)
MatRows == {0, 1}
MatCols == {0, 1}
MatVal  == {1, 2, 3}
MatFormats == {"CpuLil", "CpuDok", "CpuCoo"}
KeySize   == 4      \* sizeof(uint)
ValueSize == 4      \* sizeof(T) of T_INT, T_UINT, T_FLOAT
MaxLen == 2         \* the longest array a caller builds from
\* The triples a caller writes in the unit of all operations: those of the
\* duplicate-folding example of build.
BuildTriples == {<<0, 0, 1>>, <<0, 0, 2>>, <<1, 1, 3>>}

KeyLess(s, t) == s[1] < t[1] \/ (s[1] = t[1] /\ s[2] < t[2])
SameKey(s, t) == s[1] = t[1] /\ s[2] = t[2]

\* The reduce operator of a keyed container on the old and the new value of a
\* duplicate key; the values of this model stay far below the width of T.
Reduce(op, old, new) == IF op = "PLUS" THEN old + new ELSE new

\* Insertion of the triple t into the keyed sequence m: a duplicate key is
\* folded with the container's reduce operator.
RECURSIVE KeyedInsert(_, _, _)
KeyedInsert(m, t, reduce) ==
    IF m = <<>> THEN <<t>>
    ELSE IF SameKey(Head(m), t)
         THEN <<<<t[1], t[2], Reduce(reduce, Head(m)[3], t[3])>>>> \o Tail(m)
         ELSE IF KeyLess(t, Head(m)) THEN <<t>> \o m
              ELSE <<Head(m)>> \o KeyedInsert(Tail(m), t, reduce)

RECURSIVE KeyedFrom(_, _, _)
KeyedFrom(m, triples, reduce) ==
    IF triples = <<>> THEN m
    ELSE KeyedFrom(KeyedInsert(m, Head(triples), reduce), Tail(triples), reduce)

\* The triples a CpuCoo holds, by its arrays.
CooTriples(coo) == [k \in 1..Len(coo.Ai) |-> <<coo.Ai[k], coo.Aj[k], coo.Ax[k]>>]
CooOf(triples) ==
    [Ai |-> [k \in 1..Len(triples) |-> triples[k][1]],
     Aj |-> [k \in 1..Len(triples) |-> triples[k][2]],
     Ax |-> [k \in 1..Len(triples) |-> triples[k][3]],
     values |-> Len(triples)]
EmptyCoo == [Ai |-> <<>>, Aj |-> <<>>, Ax |-> <<>>, values |-> 0]

\* The triples of the format `format` of the storage m.
FormatTriples(m, format) ==
    CASE format = "CpuCoo" -> CooTriples(m.coo)
      [] format = "CpuLil" -> m.lil
      [] format = "CpuDok" -> m.dok

\* The format `format` of m overwritten with the triples of `source`.
FormatFilled(m, format, source) ==
    LET triples == FormatTriples(m, source)
    IN  CASE format = "CpuCoo" -> [m EXCEPT !.coo = CooOf(triples)]
          [] format = "CpuLil" -> [m EXCEPT !.lil = KeyedFrom(<<>>, triples, m.reduce)]
          [] format = "CpuDok" -> [m EXCEPT !.dok = KeyedFrom(<<>>, triples, m.reduce)]

FormatEmptied(m, format) ==
    CASE format = "CpuCoo" -> [m EXCEPT !.coo = EmptyCoo]
      [] format = "CpuLil" -> [m EXCEPT !.lil = <<>>]
      [] format = "CpuDok" -> [m EXCEPT !.dok = <<>>]

\* The conversion cost table: the valid format a conversion starts from.
CheapestSource(m) ==
    IF "CpuCoo" \in m.valid THEN "CpuCoo"
    ELSE IF "CpuLil" \in m.valid THEN "CpuLil"
    ELSE "CpuDok"

\* StorageManager::validate_rw: `format` is made valid, by conversion from a
\* valid format when there is one; with no valid format the object is empty.
storage_validate_rw(m, format) ==
    IF format \in m.valid THEN m
    ELSE IF m.valid = {} THEN [FormatEmptied(m, format) EXCEPT !.valid = {format}]
    ELSE [FormatFilled(m, format, CheapestSource(m)) EXCEPT !.valid = @ \cup {format}]

\* StorageManager::validate_rwd: every format is invalidated and `format` is
\* made valid and empty.
storage_validate_rwd(m, format) == [FormatEmptied(m, format) EXCEPT !.valid = {format}]

\* StorageManager::validate_ctor: the format's container is constructed; no
\* data moves and no validity changes.
storage_validate_ctor(m, format) == m

\* Storage::invalidate: every format is marked stale.
storage_invalidate(m) == [m EXCEPT !.valid = {}]

\* validate_rw that, finding the format valid already, marks the others stale
validate_rw_exclusive(m, format) ==
    IF format \in m.valid THEN [m EXCEPT !.valid = {format}]
    ELSE storage_validate_rw(m, format)

\* validate_rwd that converts and keeps, as validate_rw does
validate_rwd_keeping(m, format) == storage_validate_rw(m, format)

\* TMatrix::validate_rw, validate_rwd, validate_ctor, is_valid
validate_rw(m, format)   == storage_validate_rw(m, format)
validate_rwd(m, format)  == storage_validate_rwd(m, format)
validate_ctor(m, format) == storage_validate_ctor(m, format)
is_valid(m, format)      == format \in m.valid

\* cpu_lil_add_element
cpu_lil_add_element(row_id, col_id, value, m) ==
    [m EXCEPT !.lil = KeyedInsert(m.lil, <<row_id, col_id, value>>, m.reduce)]

\* TMatrix::set_format
set_format(m, format) == [m |-> validate_rw(m, format), status |-> "Ok"]

\* TMatrix::set_fill_value; has_value is whether the scalar is non-null.
set_fill_value(m, has_value, value) ==
    IF has_value
    THEN [m |-> [storage_invalidate(m) EXCEPT !.fill = value], status |-> "Ok"]
    ELSE [m |-> m, status |-> "InvalidArgument"]

\* TMatrix::set_reduce; cast_ok is whether the operator casts to
\* TOpBinary<T,T,T>.
set_reduce(m, cast_ok, op) ==
    [m |-> IF cast_ok
           THEN [validate_ctor(validate_ctor(m, "CpuLil"), "CpuDok") EXCEPT !.reduce = op]
           ELSE m,
     status |-> "InvalidArgument"]

\* TMatrix::set_int, set_uint, set_float
set_value(m, row_id, col_id, value) ==
    [m |-> cpu_lil_add_element(row_id, col_id, value, validate_rwd(m, "CpuLil")),
     status |-> "Ok"]

\* TMatrix::get_int, get_uint, get_float
get_value(m, row_id, col_id) ==
    LET m1 == validate_rw(m, "CpuDok")
        Ax == m1.dok
    IN  [m |-> m1, status |-> "Ok",
         value |-> IF \E k \in 1..Len(Ax) : SameKey(Ax[k], <<row_id, col_id>>)
                   THEN Ax[CHOOSE k \in 1..Len(Ax) : SameKey(Ax[k], <<row_id, col_id>>)][3]
                   ELSE m1.fill]

\* A MemView is its size in bytes and the words it holds.
MemViewRead(view, count) == SubSeq(view.words, 1, count)

\* build with the two key arrays exchanged
build_swapped_keys(m, keys1, keys2, values) ==
    LET elements_count == keys1.size \div KeySize
    IN  IF \/ elements_count # values.size \div ValueSize
           \/ elements_count * KeySize # keys1.size
           \/ elements_count * KeySize # keys2.size
        THEN [m |-> m, status |-> "InvalidArgument"]
        ELSE [m |-> [validate_rwd(m, "CpuCoo") EXCEPT
                        !.coo = [Ai |-> MemViewRead(keys2, elements_count),
                                 Aj |-> MemViewRead(keys1, elements_count),
                                 Ax |-> MemViewRead(values, elements_count),
                                 values |-> elements_count]],
              status |-> "Ok"]

\* TMatrix::build
build(m, keys1, keys2, values) ==
    LET elements_count == keys1.size \div KeySize
    IN  IF elements_count # values.size \div ValueSize
        THEN [m |-> m, status |-> "InvalidArgument"]
        ELSE IF elements_count * KeySize # keys1.size
        THEN [m |-> m, status |-> "InvalidArgument"]
        ELSE IF elements_count * KeySize # keys2.size
        THEN [m |-> m, status |-> "InvalidArgument"]
        ELSE [m |-> [validate_rwd(m, "CpuCoo") EXCEPT
                        !.coo = [Ai |-> MemViewRead(keys1, elements_count),
                                 Aj |-> MemViewRead(keys2, elements_count),
                                 Ax |-> MemViewRead(values, elements_count),
                                 values |-> elements_count]],
              status |-> "Ok"]

\* read of the CpuCoo arrays as they are, valid or stale
read_without_validate(m) ==
    LET elements_count == Len(m.coo.Ai)
    IN  [m |-> m, status |-> "Ok",
         keys1  |-> [size |-> KeySize * elements_count, words |-> m.coo.Ai],
         keys2  |-> [size |-> KeySize * elements_count, words |-> m.coo.Aj],
         values |-> [size |-> ValueSize * elements_count, words |-> m.coo.Ax]]

\* TMatrix::read: views of the CpuCoo arrays, Ai.size() elements each.
read(m) ==
    LET m1 == validate_rw(m, "CpuCoo")
        elements_count == Len(m1.coo.Ai)
    IN  [m |-> m1, status |-> "Ok",
         keys1  |-> [size |-> KeySize * elements_count, words |-> m1.coo.Ai],
         keys2  |-> [size |-> KeySize * elements_count, words |-> m1.coo.Aj],
         values |-> [size |-> ValueSize * elements_count, words |-> m1.coo.Ax]]

\* TMatrix::clear
clear(m) == [m |-> storage_invalidate(m), status |-> "Ok"]

\* TMatrix::TMatrix: no format is valid, the containers are empty.
MatNew ==
    [valid |-> {}, fill |-> 0, reduce |-> "SECOND",
     lil |-> <<>>, dok |-> <<>>, coo |-> EmptyCoo]

NoView == [size |-> 0, words |-> <<>>]
NoBefore == [valid |-> {}, entries |-> 0]
MatIoIdle ==
    [keys1 |-> NoView, keys2 |-> NoView, values |-> NoView,
     op |-> "none", format |-> "none", status |-> "none", value |-> 0,
     after_build |-> FALSE, before |-> NoBefore, repeated |-> FALSE, cast_ok |-> FALSE,
     out1 |-> NoView, out2 |-> NoView, out3 |-> NoView]

\* What a call leaves on the caller's side.
Called(op, format, res) ==
    [mat_io EXCEPT !.op = op, !.format = format, !.status = res.status,
                   !.after_build = (mat_io.op = "build" /\ mat_io.status = "Ok"),
                   !.before = NoBefore,
                   !.repeated = (op = "set_format" /\ mat_io.op = op /\ mat_io.format = format),
                   !.cast_ok = FALSE,
                   !.value = 0, !.out1 = NoView, !.out2 = NoView, !.out3 = NoView]

MatSetFormat ==
    \E format \in MatFormats :
        LET res == set_format(mat, format)
        IN  mat' = res.m /\ mat_io' = Called("set_format", format, res)

MatSetFillValue ==
    \E has_value \in BOOLEAN, value \in {0, 1} :
        LET res == set_fill_value(mat, has_value, value)
        IN  mat' = res.m /\ mat_io' = Called("set_fill_value", "none", res)

MatSetReduce ==
    \E cast_ok \in BOOLEAN, op \in {"PLUS", "SECOND"} :
        LET res == set_reduce(mat, cast_ok, op)
        IN  mat' = res.m /\ mat_io' = [Called("set_reduce", "none", res) EXCEPT !.cast_ok = cast_ok]

MatSet ==
    \E t \in BuildTriples :
        LET res == set_value(mat, t[1], t[2], t[3])
        IN  mat' = res.m /\ mat_io' = Called("set", "none", res)

MatGet ==
    \E row_id \in MatRows, col_id \in MatCols :
        LET res == get_value(mat, row_id, col_id)
        IN  mat' = res.m /\ mat_io' = [Called("get", "none", res) EXCEPT !.value = res.value]

MatBuild ==
    LET res == build(mat, mat_io.keys1, mat_io.keys2, mat_io.values)
    IN  mat' = res.m /\ mat_io' = Called("build", "none", res)

MatRead ==
    LET res == read(mat)
    IN  /\ mat' = res.m
        /\ mat_io' = [Called("read", "none", res) EXCEPT
                         !.out1 = res.keys1, !.out2 = res.keys2, !.out3 = res.values]

MatClear ==
    LET res == clear(mat)
    IN  mat' = res.m /\ mat_io' = Called("clear", "none", res)

MatValidateRwd ==
    \E format \in MatFormats :
        /\ mat' = validate_rwd(mat, format)
        /\ mat_io' = [Called("validate_rwd", format, [status |-> "Ok"]) EXCEPT
                         !.before = [valid |-> mat.valid,
                                     entries |-> Len(FormatTriples(mat, format))]]

\* The arrays a caller may hand to build: up to MaxLen keys and values each,
\* every array possibly with one trailing byte.
SeqsUpTo(S, n) == UNION {[1..k -> S] : k \in 0..n}
ViewsOver(S) ==
    {[size |-> Len(w) * KeySize + extra, words |-> w] : w \in SeqsUpTo(S, MaxLen), extra \in {0, 1}}

(***************************************************************************)
(* The matrix-market loader MatrixLoader<Value> (SplaUtils.hpp), with      *)
(* values in the file and in the loader.  A file is its header             *)
(* nrows ncols nnz and its data lines <<i, j>>; the value on line k is k.  *)
(* Index and Size are taken as mathematical integers: where the unsigned   *)
(* types wrap below zero the model holds a negative number, which is out   *)
(* of every range and equal to no size, as the wrapped value is.           *)
(***************************************************************************)
MaxLines == 2       \* the most data lines of a file
LinePairs == {<<1, 1>>, <<1, 2>>, <<0, 1>>}
HeaderDims == {<<2, 2>>, <<2, 1>>}
LoadCalls == {0, 1}     \* the loads a loader has seen when a Load starts
StaleVal == {0, 9}      \* what a read past the end of mVals may give

\* MatrixLoader(): the members as default-initialised.
LoaderNew == [mRows |-> <<>>, mCols |-> <<>>, mVals |-> <<>>, mNrows |-> 0, mNcols |-> 0]

\* The loop over the data lines from line k on; nnz is the local count that
\* a removed self-loop decrements.
RECURSIVE ReadLines(_, _, _, _, _, _)
ReadLines(l, nnz, lines, k, removeSelfLoops, ignoreValues) ==
    IF k > Len(lines) THEN [l |-> l, nnz |-> nnz, status |-> "Ok"]
    ELSE LET i == lines[k][1]
             j == lines[k][2]
         IN  IF ~(1 <= i /\ i <= l.mNrows)
             THEN [l |-> l, nnz |-> nnz, status |-> "RowOutOfBounds"]
             ELSE IF ~(1 <= j /\ j <= l.mNcols)
             THEN [l |-> l, nnz |-> nnz, status |-> "ColumnOutOfBounds"]
             ELSE IF removeSelfLoops /\ i = j
             THEN ReadLines(l, nnz - 1, lines, k + 1, removeSelfLoops, ignoreValues)
             ELSE ReadLines([l EXCEPT !.mRows = Append(@, i),
                                      !.mCols = Append(@, j),
                                      !.mVals = IF ignoreValues THEN @ ELSE Append(@, k)],
                            nnz, lines, k + 1, removeSelfLoops, ignoreValues)

\* std::vector::resize(n): cut to n elements or padded with zeros.
Resized(v, n) == [k \in 1..n |-> IF k <= Len(v) THEN v[k] ELSE 0]

\* Offset indices: every element of mRows and mCols, one less.
OffsetIndices(l) ==
    [l EXCEPT !.mRows = [k \in 1..Len(l.mRows) |-> l.mRows[k] - 1],
              !.mCols = [k \in 1..Len(l.mCols) |-> l.mCols[k] - 1]]

\* Whether DoubleEdges reads mVals past its end.
DoubleEdgesOverruns(l) ==
    \E k \in 1..Len(l.mRows) : l.mRows[k] # l.mCols[k] /\ k > Len(l.mVals)

\* MatrixLoader::DoubleEdges from element k on, over the first nnz elements.
RECURSIVE DoubleEdgesFrom(_, _, _, _)
DoubleEdgesFrom(l, k, nnz, stale) ==
    IF k > nnz THEN l
    ELSE IF l.mRows[k] # l.mCols[k]
         THEN DoubleEdgesFrom([l EXCEPT !.mRows = Append(@, l.mCols[k]),
                                        !.mCols = Append(@, l.mRows[k]),
                                        !.mVals = Append(@, IF k <= Len(l.mVals)
                                                            THEN l.mVals[k] ELSE stale)],
                              k + 1, nnz, stale)
         ELSE DoubleEdgesFrom(l, k + 1, nnz, stale)

\* DoubleEdges that mirrors the self-loops as well
RECURSIVE MirrorAllFrom(_, _, _, _)
MirrorAllFrom(l, k, nnz, stale) ==
    IF k > nnz THEN l
    ELSE MirrorAllFrom([l EXCEPT !.mRows = Append(@, l.mCols[k]),
                                        !.mCols = Append(@, l.mRows[k]),
                                        !.mVals = Append(@, IF k <= Len(l.mVals)
                                                            THEN l.mVals[k] ELSE stale)],
                       k + 1, nnz, stale)

DoubleEdgesWithLoops(l, stale) == MirrorAllFrom(l, 1, Len(l.mRows), stale)

DoubleEdges(l, stale) == DoubleEdgesFrom(l, 1, Len(l.mRows), stale)

\* Whether ComputeStats indexes degreePerVertex outside 0..GetNrows()-1.
ComputeStatsOverruns(l) ==
    \E k \in 1..Len(l.mRows) : ~(0 <= l.mRows[k] /\ l.mRows[k] < l.mNrows)

\* A header step that starts every load from empty arrays.
read_header_clearing(l, file) ==
    [LoaderNew EXCEPT !.mNrows = file.nrows, !.mNcols = file.ncols]

\* headerLineStream >> mNrows >> mNcols >> nnz: the dimensions are replaced,
\* the three arrays are left as they are.
ReadHeader(l, file) == [l EXCEPT !.mNrows = file.nrows, !.mNcols = file.ncols]

\* MatrixLoader::Load on the loader l.  A throw leaves the members as they
\* are at the throw.  crash and stale settle the two reads and writes out of
\* bounds: the call dies there, or goes on with some value read.
Load(l, file, makeUndirected, removeSelfLoops, ignoreValues, crash, stale) ==
    LET header == ReadHeader(l, file)
        parsed == ReadLines(header, file.nnz, file.lines, 1, removeSelfLoops, ignoreValues)
        sized  == IF ignoreValues
                  THEN [parsed.l EXCEPT !.mVals = Resized(@, Len(parsed.l.mRows))]
                  ELSE parsed.l
        offset == OffsetIndices(sized)
        doubled == IF makeUndirected THEN DoubleEdges(offset, stale) ELSE offset
    IN  IF parsed.status # "Ok"
        THEN [l |-> parsed.l, status |-> parsed.status]
        ELSE IF Len(sized.mRows) # parsed.nnz
        THEN [l |-> sized, status |-> "NnzNotValid"]
        ELSE IF makeUndirected /\ DoubleEdgesOverruns(offset) /\ crash
        THEN [l |-> offset, status |-> "Crashed"]
        ELSE IF doubled.mNrows = doubled.mNcols /\ ComputeStatsOverruns(doubled) /\ crash
        THEN [l |-> doubled, status |-> "Crashed"]
        ELSE [l |-> doubled, status |-> "Ok"]

\* Whether Load on l with this input reads or writes out of bounds.
LoadOverruns(l, file, makeUndirected, removeSelfLoops, ignoreValues) ==
    LET res == Load(l, file, makeUndirected, removeSelfLoops, ignoreValues, TRUE, 0)
    IN  res.status = "Crashed"

\* The files a caller may load.
Files ==
    {[nrows |-> d[1], ncols |-> d[2], nnz |-> n, lines |-> ls] :
        d \in HeaderDims, n \in 0..MaxLines, ls \in UNION {[1..k -> LinePairs] : k \in 0..MaxLines}}

NoFile == [nrows |-> 0, ncols |-> 0, nnz |-> 0, lines |-> <<>>]
LoadIdle ==
    [calls |-> 0, file |-> NoFile, status |-> "none", held |-> 0,
     makeUndirected |-> FALSE, removeSelfLoops |-> FALSE, ignoreValues |-> FALSE]

LoaderLoad ==
    /\ unit = "loader"
    /\ load_io.calls \in LoadCalls
    /\ load_io.status # "Crashed"
    /\ \E file \in Files, makeUndirected \in BOOLEAN, removeSelfLoops \in BOOLEAN,
          ignoreValues \in BOOLEAN :
          LET overruns == LoadOverruns(loader, file, makeUndirected, removeSelfLoops, ignoreValues)
          IN  \E crash \in (IF overruns THEN BOOLEAN ELSE {FALSE}),
                 stale \in (IF overruns THEN StaleVal ELSE {0}) :
                 LET res == Load(loader, file, makeUndirected, removeSelfLoops,
                                 ignoreValues, crash, stale)
                 IN  /\ loader' = res.l
                     /\ load_io' = [calls |-> load_io.calls + 1, file |-> file,
                                    status |-> res.status,
                                    held |-> Len(loader.mRows),
                                    makeUndirected |-> makeUndirected,
                                    removeSelfLoops |-> removeSelfLoops,
                                    ignoreValues |-> ignoreValues]
    /\ UNCHANGED <<unit, algo_vxm, vxm, assign, ewise, mat, mat_io, expr, dispatch, manager, queue>>

(***************************************************************************)
(* The expression graph and its scheduler.  The nodes 1..MaxNodes are      *)
(* numbered in an order their dependencies respect.  Each node is expanded *)
(* into one sub-task per block; a sub-task returns Ok or a non-Ok status.  *)
(* The nodes of `acc` run the accelerator masked assign, whose sub-task    *)
(* returns Ok with its kernel enqueued and not yet executed.               *)
(***************************************************************************)
MaxNodes == 3       \* the nodes of an expression
Nodes == 1..MaxNodes
BlockCounts == {1, 2}   \* the sub-tasks of a node
NodeStates == {"Default", "Scheduled", "Running", "Evaluated", "Failed", "Aborted"}

\* The dependencies an expression may declare: an edge a -> b makes a a
\* predecessor of b.
Dags == [Nodes -> SUBSET Nodes]
IsDag(preds) == \A b \in Nodes : \A a \in preds[b] : a < b

RECURSIVE AncestorsUpTo(_, _, _)
AncestorsUpTo(preds, n, depth) ==
    IF depth = 0 THEN {}
    ELSE preds[n] \cup UNION {AncestorsUpTo(preds, a, depth - 1) : a \in preds[n]}
Ancestors(preds, n) == AncestorsUpTo(preds, n, MaxNodes)

NoExpr ==
    [state |-> "none", preds |-> [n \in Nodes |-> {}], blocks |-> 0, acc |-> {},
     node |-> [n \in Nodes |-> "Default"], executed |-> [n \in Nodes |-> 0],
     in_flight |-> {}, stale_start |-> {}]

\* Expression::Make and the node builders: an expression being built.
Make(preds, blocks, acc) ==
    [NoExpr EXCEPT !.state = "Default", !.preds = preds, !.blocks = blocks, !.acc = acc]

\* Expression::Submit: the graph is frozen and every node is scheduled.
Submit(e) ==
    [e EXCEPT !.state = "Submitted", !.node = [n \in Nodes |-> "Scheduled"]]

\* A scheduler that starts any scheduled node.
can_start_unordered(e, n) == e.node[n] = "Scheduled"

\* Scheduled -> Running: every predecessor is Evaluated.  The node starts
\* stale when the kernel of a predecessor is still in flight.
CanStart(e, n) ==
    e.node[n] = "Scheduled" /\ \A a \in e.preds[n] : e.node[a] = "Evaluated"
Start(e, n) ==
    [e EXCEPT !.node[n] = "Running",
              !.stale_start = IF e.preds[n] \cap e.in_flight # {} THEN @ \cup {n} ELSE @]

\* Algo_v_assign_masked_cl::execute_dn2dn, execute_sp2dn: the kernel is
\* enqueued and Ok is returned; nothing waits for the queue.
enqueue_assign(e, n) == [e EXCEPT !.in_flight = @ \cup {n}]

\* One sub-task of the running node n returns: Ok counts towards Evaluated,
\* any other status fails the node.
SubTaskReturns(e, n, ok) ==
    LET ran == IF n \in e.acc /\ ok THEN enqueue_assign(e, n) ELSE e
        count == e.executed[n] + 1
    IN  IF ~ok THEN [ran EXCEPT !.executed[n] = count, !.node[n] = "Failed"]
        ELSE IF count = e.blocks
        THEN [ran EXCEPT !.executed[n] = count, !.node[n] = "Evaluated"]
        ELSE [ran EXCEPT !.executed[n] = count]

\* A scheduler that aborts the successors of a failed node only.
can_abort_after_failed(e, n) ==
    /\ e.node[n] \in {"Scheduled", "Running"}
    /\ \E a \in e.preds[n] : e.node[a] = "Failed"

\* Scheduled | Running -> Aborted: a predecessor is Failed or Aborted.
CanAbort(e, n) ==
    /\ e.node[n] \in {"Scheduled", "Running"}
    /\ \E a \in e.preds[n] : e.node[a] \in {"Failed", "Aborted"}
Abort(e, n) == [e EXCEPT !.node[n] = "Aborted"]

\* The device executes the kernels a node enqueued.
Drain(e, n) == [e EXCEPT !.in_flight = @ \ {n}]

\* A Wait that reports Evaluated whatever the nodes did.
wait_ignoring_failures(e) == [e EXCEPT !.state = "Evaluated"]

\* Expression::Wait returns once no node is left to run: Failed if any node
\* failed, Evaluated otherwise.
AllOver(e) == \A n \in Nodes : e.node[n] \in {"Evaluated", "Failed", "Aborted"}
Wait(e) ==
    [e EXCEPT !.state = IF \E n \in Nodes : e.node[n] = "Failed"
                        THEN "Failed" ELSE "Evaluated"]

ExprSubmit ==
    /\ expr.state = "Default"
    /\ expr' = Submit(expr)

ExprStart ==
    /\ expr.state = "Submitted"
    /\ \E n \in Nodes : CanStart(expr, n) /\ expr' = Start(expr, n)

ExprSubTask ==
    /\ expr.state = "Submitted"
    /\ \E n \in Nodes, ok \in BOOLEAN :
          /\ expr.node[n] = "Running"
          /\ expr' = SubTaskReturns(expr, n, ok)

ExprAbort ==
    /\ expr.state = "Submitted"
    /\ \E n \in Nodes : CanAbort(expr, n) /\ expr' = Abort(expr, n)

ExprDrain ==
    /\ \E n \in expr.in_flight : expr' = Drain(expr, n)

ExprWait ==
    /\ expr.state = "Submitted"
    /\ AllOver(expr)
    /\ expr' = Wait(expr)

(***************************************************************************)
(* TMatrix<T>::get_storage_manager under concurrent first calls.  The      *)
(* static unique_ptr is read and written without synchronisation; a manager*)
(* object is named by the worker that made it, 0 is the null pointer.      *)
(***************************************************************************)
Workers == {1, 2, 3}

NoManager ==
    [storage_manager |-> 0, registered |-> {}, destroyed |-> {}, made |-> 0,
     pc |-> [t \in Workers |-> "idle"], got |-> [t \in Workers |-> 0],
     unregistered |-> {}, dangling |-> {}]

\* One step of worker t in validate_rw / validate_rwd / validate_wd /
\* validate_ctor: the null test, make_unique with the assignment (which
\* destroys the manager held before), register_formats_matrix on the manager
\* the pointer then names, the return of storage_manager.get(), and the call
\* of manager->validate_* on what was returned.
get_storage_manager(m, t) ==
    CASE m.pc[t] = "test" ->
            [m EXCEPT !.pc[t] = IF m.storage_manager = 0 THEN "make" ELSE "return"]
      [] m.pc[t] = "make" ->
            [m EXCEPT !.storage_manager = t,
                      !.made = @ + 1,
                      !.destroyed = IF m.storage_manager = 0 THEN @
                                    ELSE @ \cup {m.storage_manager},
                      !.pc[t] = "register"]
      [] m.pc[t] = "register" ->
            [m EXCEPT !.registered = @ \cup {m.storage_manager}, !.pc[t] = "return"]
      [] m.pc[t] = "return" ->
            [m EXCEPT !.got[t] = m.storage_manager, !.pc[t] = "validate"]
      [] m.pc[t] = "validate" ->
            [m EXCEPT !.unregistered = IF m.got[t] \in m.registered THEN @ ELSE @ \cup {t},
                      !.dangling = IF m.got[t] \in m.destroyed THEN @ \cup {t} ELSE @,
                      !.pc[t] = "done"]

\* A worker thread takes one step of its validate_* call.
WorkerStep ==
    /\ unit = "manager"
    /\ \E t \in Workers :
          /\ manager.pc[t] \notin {"idle", "done"}
          /\ manager' = get_storage_manager(manager, t)
    /\ UNCHANGED <<unit, algo_vxm, vxm, assign, ewise, mat, mat_io, loader, load_io, expr, dispatch, queue>>

(***************************************************************************)
(* The kernel launches of Algo_vxm_masked_cl::execute_scalar on the        *)
(* default command queue.  The host enqueues vxm_prepare, calls finish,    *)
(* enqueues vxm_atomic_scalar, calls finish and returns Ok.  The device    *)
(* runs the work items of the kernels in flight one at a time, in any      *)
(* order; a kernel leaves the queue when every column has been worked.     *)
(* sums[j] is what the products of column j add to r[j].                   *)
(***************************************************************************)
MaxCols == 3
QueueVal == {0, 1}

NoQueue ==
    [n |-> 0, init |-> 0, sums |-> <<>>, Ax |-> <<>>, pc |-> "idle",
     in_flight |-> {}, prepared |-> {}, added |-> {}, status |-> "none"]

\* A finish that returns without waiting for the queue.
finish_at_once(q) == TRUE

\* queue.finish() returns when no enqueued kernel is left to run.
finish(q) == q.in_flight = {}

\* queue.enqueueNDRangeKernel(m_kernel_prepare, ..) and
\* queue.enqueueNDRangeKernel(m_kernel_atomic_scalar, ..)
QueueEnqueue ==
    /\ unit = "queue"
    /\ queue.pc \in {"validated", "prepared"}
    /\ queue' = IF queue.pc = "validated"
                THEN [queue EXCEPT !.in_flight = @ \cup {"vxm_prepare"},
                                   !.pc = "prepare_enqueued"]
                ELSE [queue EXCEPT !.in_flight = @ \cup {"vxm_atomic_scalar"},
                                   !.pc = "exec_enqueued"]
    /\ UNCHANGED <<unit, algo_vxm, vxm, assign, ewise, mat, mat_io, loader, load_io, expr, dispatch, manager>>

\* queue.finish() after either launch; the second is followed by
\* return Status::Ok.
QueueFinish ==
    /\ unit = "queue"
    /\ queue.pc \in {"prepare_enqueued", "exec_enqueued"}
    /\ finish(queue)
    /\ queue' = IF queue.pc = "prepare_enqueued"
                THEN [queue EXCEPT !.pc = "prepared"]
                ELSE [queue EXCEPT !.pc = "returned", !.status = "Ok"]
    /\ UNCHANGED <<unit, algo_vxm, vxm, assign, ewise, mat, mat_io, loader, load_io, expr, dispatch, manager>>

\* The device runs one work item of a kernel in flight: vxm_prepare sets
\* r[j] to init, vxm_atomic_scalar adds the products of column j to r[j].
QueueRun ==
    /\ unit = "queue"
    /\ \E kernel \in queue.in_flight, j \in 1..queue.n :
          LET q == IF kernel = "vxm_prepare"
                   THEN [queue EXCEPT !.Ax[j] = queue.init, !.prepared = @ \cup {j}]
                   ELSE [queue EXCEPT !.Ax[j] = (@ + queue.sums[j]) % 4, !.added = @ \cup {j}]
              worked == IF kernel = "vxm_prepare" THEN q.prepared ELSE q.added
          IN  /\ j \notin (IF kernel = "vxm_prepare" THEN queue.prepared ELSE queue.added)
              /\ queue' = IF worked = 1..queue.n
                          THEN [q EXCEPT !.in_flight = @ \ {kernel}]
                          ELSE q
    /\ UNCHANGED <<unit, algo_vxm, vxm, assign, ewise, mat, mat_io, loader, load_io, expr, dispatch, manager>>

(***************************************************************************)
(* Work-group sizing of the accelerator kernels.                           *)
(***************************************************************************)
NoDispatch == [n |-> 0, g |-> 1, assign |-> 0, vxm |-> 0, done |-> FALSE]

\* div_up_clamp(n, g, lo, hi): the ceiling of n / g, clamped to [lo, hi].
div_up_clamp(n, g, lo, hi) ==
    LET up == (n + g - 1) \div g
    IN  IF up < lo THEN lo ELSE IF up > hi THEN hi ELSE up

\* Algo_vxm_masked_cl::execute_scalar, execute_vector:
\* std::max(std::min(n / block, uint(512)), uint(1)) on unsigned integers.
vxm_groups_to_dispatch(n, g) ==
    LET q == n \div g
        m == IF q < 512 THEN q ELSE 512
    IN  IF m > 1 THEN m ELSE 1

\* The group counts of a masked assign and of a masked vxm over n elements
\* with group size g.
DispatchGroups ==
    /\ unit = "dispatch"
    /\ ~dispatch.done
    /\ dispatch' = [dispatch EXCEPT !.assign = div_up_clamp(dispatch.n, dispatch.g, 1, 256),
                                    !.vxm = vxm_groups_to_dispatch(dispatch.n, dispatch.g),
                                    !.done = TRUE]
    /\ UNCHANGED <<unit, algo_vxm, vxm, assign, ewise, mat, mat_io, loader, load_io, expr, manager, queue>>

(***************************************************************************)
(* Masked vector-matrix product on the accelerator (cl_vxm.hpp).           *)
(***************************************************************************)
VxmMaxVal == 1
VxmVal == 0..VxmMaxVal
VxmMod == VxmMaxVal + 1
KIdx == {0, 1}          \* rows of M, indices of v
NIdx == {0, 1}          \* columns of M, indices of mask and r
KSeq == <<0, 1>>        \* KIdx in increasing order
EdgeVal == {1}          \* M is an adjacency matrix: 1 where an edge exists

VxmOps      == [op_multiply : OpsMultiply, op_add : OpsAdd, op_select : OpsSelect]
NoProgram   == [op_multiply |-> "none", op_add |-> "none", op_select |-> "none"]

\* StorageManager::validate_rw on a vector or matrix operand: the format is
\* made valid by conversion, the logical content is kept.
vxm_validate_rw(obj, format) == [obj EXCEPT !.valid = @ \cup {format}]

\* StorageManager::validate_rwd on the result vector: every format is
\* invalidated and `format` is made valid and empty.
vxm_validate_rwd(obj, format) ==
    [obj EXCEPT !.valid = {format}, !.Ax = [j \in NIdx |-> obj.fill]]

\* Kernel vxm_prepare: every r[j] is set to init.
vxm_prepare(Ax, init) == [j \in NIdx |-> init]

\* The products v[k] (x) M[k,j] of column j, in row order, over the rows k
\* where both v[k] and M[k,j] exist.
ColumnProducts(op_multiply, v, M, j) ==
    LET ks == SelectSeq(KSeq, LAMBDA k : v[k] # NoEntry /\ M[<<k, j>>] # NoEntry)
    IN  [i \in 1..Len(ks) |-> ApplyBinary(op_multiply, v[ks[i]], M[<<ks[i], j>>], VxmMod)]

RECURSIVE FoldAdd(_, _, _)
FoldAdd(op_add, acc, s) ==
    IF s = <<>> THEN acc
    ELSE FoldAdd(op_add, ApplyBinary(op_add, acc, Head(s), VxmMod), Tail(s))

\* Kernel vxm_atomic_scalar of a program built for the operators `program`:
\* under the mask, every product of column j is added into r[j].
vxm_atomic_scalar(program, v, M, mask, Ax) ==
    [j \in NIdx |->
        IF ApplySelect(program.op_select, mask[j])
        THEN FoldAdd(program.op_add, Ax[j],
                     ColumnProducts(program.op_multiply, v, M, j))
        ELSE Ax[j]]

\* Algo_vxm_masked_cl::ensure_kernel: the program is built once, for the
\* operators of the task that comes first; build_ok is the builder's outcome.
\* `built` tells whether kernel_builder.build() was called.
ensure_kernel(algo, ops, build_ok) ==
    IF algo.m_compiled THEN [ok |-> TRUE, built |-> FALSE, algo |-> algo]
    ELSE IF ~build_ok THEN [ok |-> FALSE, built |-> TRUE, algo |-> algo]
    ELSE [ok |-> TRUE, built |-> TRUE,
          algo |-> [m_compiled |-> TRUE, m_program |-> ops]]

\* Algo_vxm_masked_cl::execute_scalar, from the validation of the operands
\* to the returned status.
execute_scalar(ops, build_ok) ==
    LET r1   == vxm_validate_rwd(vxm.r, "CLDenseVec")
        mask == vxm_validate_rw(vxm.mask, "CLDenseVec")
        M    == vxm_validate_rw(vxm.M, "CLCsr")
        v    == vxm_validate_rw(vxm.v, "CLDenseVec")
        ek   == ensure_kernel(algo_vxm, ops, build_ok)
        Ax1  == vxm_prepare(r1.Ax, vxm.init)
        Ax2  == vxm_atomic_scalar(ek.algo.m_program, v.Ax, M.Ax, mask.Ax, Ax1)
    IN  /\ algo_vxm' = ek.algo
        /\ vxm' = [vxm EXCEPT !.mask = mask, !.M = M, !.v = v, !.task = ops,
                              !.r = IF ek.ok THEN [r1 EXCEPT !.Ax = Ax2] ELSE r1,
                              !.status = IF ek.ok THEN "Ok" ELSE "Error",
                              !.built = ek.built]

\* Algo_vxm_masked_cl::execute on one masked vxm task.
VxmExecute ==
    /\ unit = "vxm"
    /\ \E ops \in VxmOps, build_ok \in BOOLEAN : execute_scalar(ops, build_ok)
    /\ UNCHANGED unit

VxmOperands ==
    [v    : [valid : {{"CpuDenseVec"}}, Ax : [KIdx -> VxmVal \cup {NoEntry}]],
     M    : [valid : {{"CpuCsr"}}, Ax : [KIdx \X NIdx -> EdgeVal \cup {NoEntry}]],
     mask : [valid : {{"CpuDenseVec"}}, Ax : [NIdx -> VxmVal]],
     init : VxmVal]

VxmIdle ==
    [v |-> [valid |-> {}, Ax |-> [k \in KIdx |-> NoEntry]],
     M |-> [valid |-> {}, Ax |-> [e \in KIdx \X NIdx |-> NoEntry]],
     mask |-> [valid |-> {}, Ax |-> [j \in NIdx |-> 0]],
     init |-> 0,
     r |-> [valid |-> {}, fill |-> 0, Ax |-> [j \in NIdx |-> 0]],
     task |-> NoProgram,
     status |-> "none",
     built |-> FALSE]

InitVxm ==
    /\ unit = "vxm"
    /\ algo_vxm = [m_compiled |-> FALSE, m_program |-> NoProgram]
    /\ \E o \in VxmOperands :
          vxm = [VxmIdle EXCEPT !.v = o.v, !.M = o.M, !.mask = o.mask, !.init = o.init]
    /\ assign = AssignIdle
    /\ ewise = EWiseIdle
    /\ mat = MatNew /\ mat_io = MatIoIdle
    /\ loader = LoaderNew /\ load_io = LoadIdle
    /\ expr = NoExpr
    /\ dispatch = NoDispatch
    /\ manager = NoManager
    /\ queue = NoQueue

NextVxm == VxmExecute /\ UNCHANGED <<assign, ewise, mat, mat_io, loader, load_io, expr, dispatch, manager, queue>>

SpecVxm == InitVxm /\ [][NextVxm]_vars

InitAssign ==
    /\ unit = "assign"
    /\ algo_vxm = [m_compiled |-> FALSE, m_program |-> NoProgram]
    /\ vxm = VxmIdle
    /\ ewise = EWiseIdle
    /\ mat = MatNew /\ mat_io = MatIoIdle
    /\ loader = LoaderNew /\ load_io = LoadIdle
    /\ expr = NoExpr
    /\ \E e \in [AssignIdx -> MaskVal \cup {NoEntry}],
          valid \in {{"CpuCoo"}, {"CpuDense"}, {"CpuCoo", "CpuDense"}},
          rAx \in [AssignIdx -> AssignVal] :
          assign = [AssignIdle EXCEPT !.mask = MaskOf(e, valid),
                                      !.r = [fill |-> 0, valid |-> {"CpuDense"},
                                             coo |-> <<>>, dense |-> rAx]]
    /\ dispatch = NoDispatch
    /\ manager = NoManager
    /\ queue = NoQueue

NextAssign == AssignExecute

\* A node whose vectors have one block row.
InitEWise ==
    /\ unit = "ewise"
    /\ algo_vxm = [m_compiled |-> FALSE, m_program |-> NoProgram]
    /\ vxm = VxmIdle
    /\ assign = AssignIdle
    /\ mat = MatNew /\ mat_io = MatIoIdle
    /\ loader = LoaderNew /\ load_io = LoadIdle
    /\ expr = NoExpr
    /\ \E blockA \in BlocksOver(AVals), blockB \in BlocksOver(BVals),
          present \in BOOLEAN, maskBlock \in BlocksOver({1}), old \in StaleBlocks :
          /\ ~present => maskBlock = NullBlock
          /\ ewise = [a |-> <<blockA>>, b |-> <<blockB>>,
                      mask |-> [present |-> present, blocks |-> <<maskBlock>>],
                      w |-> <<old>>, w_old |-> <<old>>, status |-> <<"none">>,
                      permB |-> <<<<>>>>, null_read |-> <<FALSE>>]
    /\ dispatch = NoDispatch
    /\ manager = NoManager
    /\ queue = NoQueue

NextEWise == EWiseProcess

\* Vectors of up to MaxBlockRows block rows, each block null or holding one
\* entry, with or without a mask; the sub-tasks run in any order.
InitEWiseBlocks ==
    /\ unit = "ewise"
    /\ algo_vxm = [m_compiled |-> FALSE, m_program |-> NoProgram]
    /\ vxm = VxmIdle
    /\ assign = AssignIdle
    /\ mat = MatNew /\ mat_io = MatIoIdle
    /\ loader = LoaderNew /\ load_io = LoadIdle
    /\ expr = NoExpr
    /\ dispatch = NoDispatch
    /\ manager = NoManager
    /\ \E n \in 1..MaxBlockRows, present \in BOOLEAN :
       \E a \in [1..n -> {NullBlock, BlockOf([i \in EWIdx |-> IF i = 1 THEN 3 ELSE NoEntry])}],
          b \in [1..n -> {NullBlock, BlockOf([i \in EWIdx |-> IF i = 0 THEN 2 ELSE NoEntry])}],
          m \in [1..n -> {NullBlock, BlockOf([i \in EWIdx |-> IF i = 0 THEN 1 ELSE NoEntry])}],
          w \in [1..n -> StaleBlocks] :
          /\ ~present => m = [i \in 1..n |-> NullBlock]
          /\ ewise = Process(a, b, [present |-> present, blocks |-> m], w)
    /\ queue = NoQueue

SpecEWiseBlocks == InitEWiseBlocks /\ [][NextEWise]_vars

\* build and read on a new matrix, with either reduce operator registered,
\* for every three arrays of a caller.
InitBuild ==
    /\ unit = "build"
    /\ algo_vxm = [m_compiled |-> FALSE, m_program |-> NoProgram]
    /\ vxm = VxmIdle /\ assign = AssignIdle /\ ewise = EWiseIdle
    /\ loader = LoaderNew /\ load_io = LoadIdle
    /\ expr = NoExpr
    /\ \E reduce \in {"SECOND", "PLUS"} : mat = [MatNew EXCEPT !.reduce = reduce]
    /\ \E keys1 \in ViewsOver(MatRows), keys2 \in ViewsOver(MatCols),
          values \in ViewsOver(MatVal) :
          mat_io = [MatIoIdle EXCEPT !.keys1 = keys1, !.keys2 = keys2, !.values = values]
    /\ dispatch = NoDispatch
    /\ manager = NoManager
    /\ queue = NoQueue

NextBuild ==
    /\ unit = "build"
    /\ (MatBuild \/ MatRead)
    /\ UNCHANGED <<unit, algo_vxm, vxm, assign, ewise, loader, load_io, expr, dispatch, manager, queue>>

SpecBuild == InitBuild /\ [][NextBuild]_vars

\* Every operation of TMatrix on a new matrix, for a caller whose three
\* arrays hold up to MaxLen of the BuildTriples.
InitMatrix ==
    /\ unit = "matrix"
    /\ algo_vxm = [m_compiled |-> FALSE, m_program |-> NoProgram]
    /\ vxm = VxmIdle /\ assign = AssignIdle /\ ewise = EWiseIdle
    /\ loader = LoaderNew /\ load_io = LoadIdle
    /\ expr = NoExpr
    /\ mat = MatNew
    /\ \E triples \in SeqsUpTo(BuildTriples, MaxLen) :
          LET coo == CooOf(triples)
          IN  mat_io = [MatIoIdle EXCEPT
                           !.keys1 = [size |-> KeySize * Len(triples), words |-> coo.Ai],
                           !.keys2 = [size |-> KeySize * Len(triples), words |-> coo.Aj],
                           !.values = [size |-> ValueSize * Len(triples), words |-> coo.Ax]]
    /\ dispatch = NoDispatch
    /\ manager = NoManager
    /\ queue = NoQueue

NextMatrix ==
    /\ unit = "matrix"
    /\ \/ MatSetFormat
       \/ MatSetFillValue
       \/ MatSetReduce
       \/ MatSet
       \/ MatGet
       \/ MatBuild
       \/ MatRead
       \/ MatClear
       \/ MatValidateRwd
    /\ UNCHANGED <<unit, algo_vxm, vxm, assign, ewise, loader, load_io, expr, dispatch, manager, queue>>

SpecMatrix == InitMatrix /\ [][NextMatrix]_vars

\* Up to two loads on one MatrixLoader, for every file and option.
InitLoader ==
    /\ unit = "loader"
    /\ algo_vxm = [m_compiled |-> FALSE, m_program |-> NoProgram]
    /\ vxm = VxmIdle /\ assign = AssignIdle /\ ewise = EWiseIdle
    /\ mat = MatNew /\ mat_io = MatIoIdle
    /\ loader = LoaderNew /\ load_io = LoadIdle
    /\ expr = NoExpr
    /\ dispatch = NoDispatch
    /\ manager = NoManager
    /\ queue = NoQueue

NextLoader == LoaderLoad

SpecLoader == InitLoader /\ [][NextLoader]_vars

\* An expression built over any dependencies, with any block count and the
\* accelerator assign in any one place or none, then submitted and waited.
InitExpr ==
    /\ unit = "expr"
    /\ algo_vxm = [m_compiled |-> FALSE, m_program |-> NoProgram]
    /\ vxm = VxmIdle /\ assign = AssignIdle /\ ewise = EWiseIdle
    /\ mat = MatNew /\ mat_io = MatIoIdle
    /\ loader = LoaderNew /\ load_io = LoadIdle
    /\ \E preds \in Dags, blocks \in BlockCounts, acc \in {{}} \cup {{n} : n \in Nodes} :
          /\ IsDag(preds)
          /\ expr = Make(preds, blocks, acc)
    /\ dispatch = NoDispatch
    /\ manager = NoManager
    /\ queue = NoQueue

NextExpr ==
    /\ unit = "expr"
    /\ \/ ExprSubmit
       \/ ExprStart
       \/ ExprSubTask
       \/ ExprAbort
       \/ ExprDrain
       \/ ExprWait
    /\ UNCHANGED <<unit, algo_vxm, vxm, assign, ewise, mat, mat_io, loader, load_io, dispatch, manager, queue>>

SpecExpr == InitExpr /\ [][NextExpr]_vars

\* Problem sizes around the group size and around both clamps, and group
\* sizes from one work item to a wave.
InitDispatch ==
    /\ unit = "dispatch"
    /\ algo_vxm = [m_compiled |-> FALSE, m_program |-> NoProgram]
    /\ vxm = VxmIdle /\ assign = AssignIdle /\ ewise = EWiseIdle
    /\ mat = MatNew /\ mat_io = MatIoIdle
    /\ loader = LoaderNew /\ load_io = LoadIdle
    /\ expr = NoExpr
    /\ \E n \in (0..9) \cup {255, 256, 257, 511, 512, 513, 1023, 1024, 1025, 2049},
          g \in {1, 2, 3, 4, 64} :
          dispatch = [NoDispatch EXCEPT !.n = n, !.g = g]
    /\ manager = NoManager
    /\ queue = NoQueue

SpecDispatch == InitDispatch /\ [][DispatchGroups]_vars

\* Any number of workers call validate_* on matrices of one type, none
\* before.
InitManager ==
    /\ unit = "manager"
    /\ algo_vxm = [m_compiled |-> FALSE, m_program |-> NoProgram]
    /\ vxm = VxmIdle /\ assign = AssignIdle /\ ewise = EWiseIdle
    /\ mat = MatNew /\ mat_io = MatIoIdle
    /\ loader = LoaderNew /\ load_io = LoadIdle
    /\ expr = NoExpr
    /\ dispatch = NoDispatch
    /\ \E calling \in SUBSET Workers :
          manager = [NoManager EXCEPT
                        !.pc = [t \in Workers |-> IF t \in calling THEN "test" ELSE "idle"]]
    /\ queue = NoQueue

SpecManager == InitManager /\ [][WorkerStep]_vars

\* execute_scalar after the validation of its operands, with compiled
\* kernels: r of up to MaxCols columns as validate_rwd left it, any init and
\* any products.
InitQueue ==
    /\ unit = "queue"
    /\ algo_vxm = [m_compiled |-> FALSE, m_program |-> NoProgram]
    /\ vxm = VxmIdle /\ assign = AssignIdle /\ ewise = EWiseIdle
    /\ mat = MatNew /\ mat_io = MatIoIdle
    /\ loader = LoaderNew /\ load_io = LoadIdle
    /\ expr = NoExpr
    /\ dispatch = NoDispatch
    /\ manager = NoManager
    /\ \E n \in 1..MaxCols, init \in QueueVal :
       \E sums \in [1..n -> {1, 2}] :
          queue = [NoQueue EXCEPT !.n = n, !.init = init, !.sums = sums,
                                  !.Ax = [j \in 1..n |-> 2], !.pc = "validated"]

NextQueue == QueueEnqueue \/ QueueFinish \/ QueueRun

SpecQueue == InitQueue /\ [][NextQueue]_vars

SpecEWise == InitEWise /\ [][NextEWise]_vars

SpecAssign == InitAssign /\ [][NextAssign]_vars

\* The contract of the masked product for the operators the task names.
VxmContract(t) ==
    [j \in NIdx |->
        IF ApplySelect(t.task.op_select, t.mask.Ax[j])
        THEN FoldAdd(t.task.op_add, t.init,
                     ColumnProducts(t.task.op_multiply, t.v.Ax, t.M.Ax, j))
        ELSE t.init]

\* C1: after a masked vxm task that returned Ok, r[j] is init add-folded with
\* the products v[k] (x) M[k,j] for every column j the mask selects, and init
\* for every other column, for the operators of that task.
C1_VxmContract == vxm.status = "Ok" => vxm.r.Ax = VxmContract(vxm)

\* Whether the mask of the last assign selects index i: an entry of a sparse
\* mask, or a value of a dense mask, that satisfies op_select.
MaskSelects(t, i) ==
    IF t.variant = "sp2dn"
    THEN \E k \in 1..Len(t.mask.coo) :
            t.mask.coo[k][1] = i /\ ApplySelect(t.op_select, t.mask.coo[k][2])
    ELSE ApplySelect(t.op_select, t.mask.dense[i])

\* C2: after a masked assign, r[i] is op_assign(r_old[i], value) where
\* op_select(mask[i]) holds and r_old[i] elsewhere, r_old being the content of
\* r before the operation.
C2_AssignContract ==
    assign.status = "Ok" =>
        \A i \in AssignIdx :
            assign.r.dense[i] =
                IF MaskSelects(assign, i)
                THEN ApplyBinary(assign.op_assign, assign.r_old[i], assign.value, AssignMod)
                ELSE assign.r_old[i]

\* C2, the scenario of the specification: r = [0,0,0,0], mask = [1,0,1,0]
\* (dense), select x # 0, value 7, assign = right give r = [7,0,7,0].
C2_Scenario ==
    (/\ assign.status = "Ok"
     /\ assign.variant = "dn2dn"
     /\ assign.r_old = [i \in AssignIdx |-> 0]
     /\ assign.mask.dense = [i \in AssignIdx |-> IF i \in {0, 2} THEN 1 ELSE 0]
     /\ assign.op_select = "NQZERO" /\ assign.op_assign = "SECOND" /\ assign.value = 7)
    => assign.r.dense = [i \in AssignIdx |-> IF i \in {0, 2} THEN 7 ELSE 0]

C2_ScenarioReached ==
    /\ assign.status = "Ok"
    /\ assign.variant = "dn2dn"
    /\ assign.r_old = [i \in AssignIdx |-> 0]
    /\ assign.mask.dense = [i \in AssignIdx |-> IF i \in {0, 2} THEN 1 ELSE 0]
    /\ assign.op_select = "NQZERO" /\ assign.op_assign = "SECOND" /\ assign.value = 7

\* The value a block holds at index i, NoEntry when it holds none.
BlockAt(block, i) ==
    IF \E k \in 1..Len(block.rows) : block.rows[k] = i
    THEN block.vals[CHOOSE k \in 1..Len(block.rows) : block.rows[k] = i]
    ELSE NoEntry

\* The coefficient-wise sum of two blocks: the union of their indices.
BlockSum(blockA, blockB) ==
    BlockOf([i \in EWIdx |->
        LET x == BlockAt(blockA, i)
            y == BlockAt(blockB, i)
        IN  IF x = NoEntry THEN y ELSE IF y = NoEntry THEN x ELSE x + y])

\* A block restricted to the indices the mask block holds; a node without a
\* mask block leaves the block as it is.
BlockFiltered(block, mask, i) ==
    IF ~mask.present \/ mask.blocks[i].null THEN block
    ELSE BlockOf([j \in EWIdx |->
            IF BlockAt(mask.blocks[i], j) # NoEntry THEN BlockAt(block, j) ELSE NoEntry])

\* C3: element-wise add with '+' of two COO blocks a and b leaves in w the
\* union of their indices in increasing order, with a[i]+b[i] where both hold
\* index i and the single operand's value otherwise.
C3_EWiseAddSum ==
    \A i \in DOMAIN ewise.w :
        (/\ ewise.status[i] \notin {"idle", "none"}
         /\ ~ewise.a[i].null /\ ~ewise.b[i].null /\ ~ewise.mask.present)
        => /\ ewise.w[i].rows = BlockSum(ewise.a[i], ewise.b[i]).rows
           /\ ewise.w[i].vals = BlockSum(ewise.a[i], ewise.b[i]).vals

\* C4: once the sub-task of block i is over, block i of w is removed when
\* both a's and b's blocks are empty, and equals the other operand's block
\* filtered by the mask when exactly one of them is empty, whichever it is.
C4_EWiseEmptyInputs ==
    \A i \in DOMAIN ewise.w :
        ewise.status[i] \notin {"idle", "none"} =>
            /\ (ewise.a[i].null /\ ewise.b[i].null) => ewise.w[i].null
            /\ (ewise.a[i].null /\ ~ewise.b[i].null) =>
                    ewise.w[i] = BlockFiltered(ewise.b[i], ewise.mask, i)
            /\ (~ewise.a[i].null /\ ewise.b[i].null) =>
                    ewise.w[i] = BlockFiltered(ewise.a[i], ewise.mask, i)

\* C4, the case the code handles: both blocks empty, the block of w removed.
C4_BothEmptyRemoved ==
    \E i \in DOMAIN ewise.w :
        /\ ewise.status[i] = "stored" /\ ewise.a[i].null /\ ewise.b[i].null
        /\ ~ewise.w_old[i].null /\ ewise.w[i].null

\* C5: with a mask vector supplied, every index of the block the sub-task
\* stores as block i of w is an index of the mask's block i; a mask block
\* without entries leaves the result block empty.
C5_EWiseMaskFilters ==
    \A i \in DOMAIN ewise.w :
        (ewise.mask.present /\ ewise.status[i] = "stored") =>
            \A k \in 1..Len(ewise.w[i].rows) :
                \E m \in 1..Len(ewise.mask.blocks[i].rows) :
                    ewise.mask.blocks[i].rows[m] = ewise.w[i].rows[k]


(***************************************************************************)
(* Claims about TMatrix::build and TMatrix::read.                          *)
(***************************************************************************)
\* A view describes a number of elements when it is a whole number of them.
WholeElements(view, element_size) == view.size % element_size = 0
SameElementCount(io) ==
    /\ WholeElements(io.keys1, KeySize)
    /\ WholeElements(io.keys2, KeySize)
    /\ WholeElements(io.values, ValueSize)
    /\ io.keys1.size \div KeySize = io.keys2.size \div KeySize
    /\ io.keys1.size \div KeySize = io.values.size \div ValueSize

\* C6: build returns InvalidArgument whenever keys1, keys2 and values do not
\* describe the same number of elements, and Ok only when they do.
C6_BuildStatus ==
    mat_io.op = "build" =>
        /\ (~SameElementCount(mat_io) => mat_io.status = "InvalidArgument")
        /\ (mat_io.status = "Ok" => SameElementCount(mat_io))

\* C6, on arrays that are whole numbers of elements: build returns Ok exactly
\* when the three element counts are equal.
C6_WholeArrays ==
    (/\ mat_io.op = "build"
     /\ WholeElements(mat_io.keys1, KeySize)
     /\ WholeElements(mat_io.keys2, KeySize)
     /\ WholeElements(mat_io.values, ValueSize))
        => (mat_io.status = "Ok" <=> SameElementCount(mat_io))

ReadAfterBuild == mat_io.op = "read" /\ mat_io.after_build

TriplesOf(keys1, keys2, values) ==
    [k \in 1..Len(keys1.words) |-> <<keys1.words[k], keys2.words[k], values.words[k]>>]
ReadBack == TriplesOf(mat_io.out1, mat_io.out2, mat_io.out3)
Built    == TriplesOf(mat_io.keys1, mat_io.keys2, mat_io.values)

NoDuplicateKeys(triples) ==
    \A k, l \in 1..Len(triples) : SameKey(triples[k], triples[l]) => k = l

\* C7: build folds duplicate (row, col) keys with the registered reduce
\* operator: read after build never returns two triples with the same
\* (row, col), and returns what folding the built triples gives.
C7_BuildFoldsDuplicates ==
    ReadAfterBuild =>
        /\ NoDuplicateKeys(ReadBack)
        /\ ReadBack = KeyedFrom(<<>>, Built, mat.reduce)

Occurrences(triples, t) == Cardinality({k \in 1..Len(triples) : triples[k] = t})
IsPermutation(s, t) ==
    /\ Len(s) = Len(t)
    /\ \A k \in 1..Len(s) : Occurrences(s, s[k]) = Occurrences(t, s[k])
SortedKeys(triples) ==
    \A k \in 1..Len(triples) - 1 : KeyLess(triples[k], triples[k + 1])

\* C8: read straight after build returns the three arrays built, up to a
\* permutation of the triples, and element for element when the input is
\* sorted and has no duplicate keys.
C8_BuildReadRoundTrip ==
    ReadAfterBuild =>
        /\ IsPermutation(ReadBack, Built)
        /\ (SortedKeys(Built) => ReadBack = Built)

\* C8's case: two triples with distinct keys, out of order, built and read.
C8_RoundTripReached ==
    /\ ReadAfterBuild
    /\ Len(Built) = 2 /\ KeyLess(Built[2], Built[1])
    /\ ReadBack = Built

HoldsZeroEntries(m) ==
    /\ \A row_id \in MatRows, col_id \in MatCols :
           get_value(m, row_id, col_id).value = m.fill
    /\ read(m).keys1.size = 0
    /\ read(m).keys2.size = 0
    /\ read(m).values.size = 0

C12_SetReduceStatus ==
    mat_io.op = "set_reduce" =>
        (mat_io.status = "Ok" <=> mat_io.cast_ok)

\* C12, the part the code meets: a successful cast installs the operator
\* and a failed one leaves it, whatever the status.
C12_ReduceInstalled ==
    /\ mat_io.op = "set_reduce" /\ mat_io.cast_ok
    /\ mat.reduce = "PLUS" /\ mat_io.status = "InvalidArgument"

(***************************************************************************)
(* Claims about MatrixLoader::Load.                                        *)
(***************************************************************************)
Loaded == load_io.calls > 0
LoadedOk == Loaded /\ load_io.status = "Ok"
Fresh == load_io.held = 0

BadLine(file, k) ==
    \/ ~(1 <= file.lines[k][1] /\ file.lines[k][1] <= file.nrows)
    \/ ~(1 <= file.lines[k][2] /\ file.lines[k][2] <= file.ncols)
HasBadLine(file) == \E k \in 1..Len(file.lines) : BadLine(file, k)

InRange(l) ==
    \A k \in 1..Len(l.mRows) :
        /\ 0 <= l.mRows[k] /\ l.mRows[k] < l.mNrows
        /\ 0 <= l.mCols[k] /\ l.mCols[k] < l.mNcols

\* C13: Load throws for every input with a data line whose row index is
\* outside [1, nrows] or whose column index is outside [1, ncols], and every
\* triple held after a successful load without mirroring has
\* 0 <= row < nrows and 0 <= col < ncols.
C13_LoadRange ==
    /\ (Loaded /\ HasBadLine(load_io.file)) =>
            load_io.status \in {"RowOutOfBounds", "ColumnOutOfBounds"}
    /\ (LoadedOk /\ ~load_io.makeUndirected) => InRange(loader)

\* C13, the part the code meets: an out-of-range line always throws, and a
\* successful load without mirroring into a loader that held nothing holds
\* only triples in range.
C13_FreshLoadRange ==
    /\ (Loaded /\ HasBadLine(load_io.file)) =>
            load_io.status \in {"RowOutOfBounds", "ColumnOutOfBounds"}
    /\ (LoadedOk /\ Fresh /\ ~load_io.makeUndirected) => InRange(loader)

\* The self-loop lines of the last file that the load removed.
RemovedLoops ==
    IF load_io.removeSelfLoops
    THEN Cardinality({k \in 1..Len(load_io.file.lines) :
                        load_io.file.lines[k][1] = load_io.file.lines[k][2]})
    ELSE 0

\* The triples the load mirrored: those with row # col among the triples
\* held before DoubleEdges.
Mirrored ==
    IF load_io.makeUndirected
    THEN Cardinality({k \in 1..(load_io.file.nnz - RemovedLoops) :
                        k <= Len(loader.mRows) /\ loader.mRows[k] # loader.mCols[k]})
    ELSE 0

\* C14 as stated: after a successful Load with any combination of options,
\* the number of triples held is the header's nnz minus the self-loop lines
\* removed.
C14_CountAsStated ==
    LoadedOk => Len(loader.mRows) = load_io.file.nnz - RemovedLoops

\* C14: after a successful Load the number of triples held is the header's
\* nnz minus the self-loop lines removed, plus, with makeUndirected, one
\* mirrored triple for each of those with row # col.
C14_LoadCount ==
    LoadedOk => Len(loader.mRows) = load_io.file.nnz - RemovedLoops + Mirrored

\* C14's case: a load that removed a self-loop line and mirrored an edge.
C14_CountReached ==
    /\ LoadedOk /\ Fresh
    /\ load_io.removeSelfLoops /\ RemovedLoops = 1
    /\ load_io.makeUndirected /\ Mirrored = 1
    /\ Len(loader.mRows) = 2

\* The number of triples of l with row = col.
Loops(l) == Cardinality({k \in 1..Len(l.mRows) : l.mRows[k] = l.mCols[k]})

\* C15: after Load with makeUndirected, every held edge (i, j) with i # j has
\* its mirror (j, i) held with the same value, the row, column and value
\* arrays have the same length, and self-loops are not duplicated: a loader
\* that held nothing holds one triple per self-loop line kept.
C15_Undirected ==
    (LoadedOk /\ load_io.makeUndirected) =>
        /\ Len(loader.mRows) = Len(loader.mCols)
        /\ Len(loader.mRows) = Len(loader.mVals)
        /\ \A k \in 1..Len(loader.mRows) :
              loader.mRows[k] # loader.mCols[k] =>
                 \E m \in 1..Len(loader.mRows) :
                    /\ loader.mRows[m] = loader.mCols[k]
                    /\ loader.mCols[m] = loader.mRows[k]
                    /\ m <= Len(loader.mVals) /\ k <= Len(loader.mVals)
                    /\ loader.mVals[m] = loader.mVals[k]
        /\ Fresh =>
              Loops(loader) = Cardinality({k \in 1..Len(load_io.file.lines) :
                                  load_io.file.lines[k][1] = load_io.file.lines[k][2]})
                              - RemovedLoops

\* C15 on a loader that held nothing before the load.
C15_FreshUndirected == Fresh => C15_Undirected

\* The expression Wait has returned on.
Waited == expr.state \in {"Evaluated", "Failed"}

\* The graph of TestMxM: the data-write nodes 1 and 2 feed the product node 3.
ProductGraph == expr.preds = [n \in Nodes |-> IF n = 3 THEN {1, 2} ELSE {}]

\* C16: after Submit and Wait, the state of an expression is Failed if any of
\* its nodes failed and Evaluated otherwise, and no node is left to run.
C16_ExprState ==
    Waited =>
        /\ AllOver(expr)
        /\ expr.state = "Failed" <=> \E n \in Nodes : expr.node[n] = "Failed"
        /\ expr.state = "Evaluated" <=> \A n \in Nodes : expr.node[n] = "Evaluated"

\* C16, the product expression: every sub-task of the two data writes and of
\* the product returned Ok, and the expression is Evaluated.
C16_ProductEvaluated ==
    /\ ProductGraph
    /\ expr.state = "Evaluated"
    /\ \A n \in {1, 2, 3} : expr.node[n] = "Evaluated" /\ expr.executed[n] = expr.blocks

\* C17: a node that has entered Running, or has had a sub-task started, has
\* every declared predecessor Evaluated.
C17_HappensBefore ==
    \A n \in Nodes :
        (expr.node[n] \in {"Running", "Evaluated", "Failed"} \/ expr.executed[n] > 0) =>
            \A a \in expr.preds[n] : expr.node[a] = "Evaluated"

\* C17, nodes without a dependency path between them: the two data writes of
\* the product expression run at the same time, the product waiting for both.
C17_Overlap ==
    /\ ProductGraph
    /\ expr.node[1] = "Running" /\ expr.node[2] = "Running"
    /\ expr.node[3] = "Scheduled"

\* Whether a node can take a step of its own.
CanStep(e, n) == CanStart(e, n) \/ e.node[n] = "Running" \/ CanAbort(e, n)

\* C18: a descendant of a failed node never executes a sub-task and is Aborted
\* once the expression is over; a node that is no descendant of a failed or
\* aborted node is then Evaluated or Failed; and until the expression is over
\* some node can take a step, so that every node comes to its end.
C18_FailureAborts ==
    /\ \A n \in Nodes :
          (\E a \in Ancestors(expr.preds, n) : expr.node[a] = "Failed") =>
              /\ expr.executed[n] = 0
              /\ expr.node[n] \in {"Scheduled", "Aborted"}
              /\ Waited => expr.node[n] = "Aborted"
    /\ \A n \in Nodes :
          (/\ Waited
           /\ \A a \in Ancestors(expr.preds, n) : expr.node[a] \notin {"Failed", "Aborted"}) =>
              expr.node[n] \in {"Evaluated", "Failed"}
    /\ (expr.state = "Submitted" /\ ~AllOver(expr)) => \E n \in Nodes : CanStep(expr, n)

\* C18, a chain under a failed node: node 1 failed and Wait returned, its
\* descendants 2 and 3 are Aborted with no sub-task executed.
C18_AbortedChain ==
    /\ Waited
    /\ expr.preds = [n \in Nodes |-> IF n = 1 THEN {} ELSE IF n = 2 THEN {1} ELSE {2}]
    /\ expr.node[1] = "Failed"
    /\ expr.node[2] = "Aborted" /\ expr.node[3] = "Aborted"
    /\ expr.executed[2] = 0 /\ expr.executed[3] = 0

\* C19: no node starts while a write of one of its predecessors is still in
\* flight on the device.
C19_DependencySound == expr.stale_start = {}

\* C19 for the nodes whose predecessors wait for their own work: they start
\* with every write of their predecessors made.
C19_HostSound ==
    \A n \in expr.stale_start : expr.preds[n] \cap expr.acc # {}

\* C20: after a masked vxm task that returned Ok, the program whose kernels
\* were launched is the one built from the operators of that task.
C20_OwnKernels == vxm.status = "Ok" => algo_vxm.m_program = vxm.task

\* C20, the failing case: a task returned Ok having run the kernels built for
\* an earlier task with other operators.
C20_EarlierKernels ==
    /\ vxm.status = "Ok"
    /\ algo_vxm.m_program # vxm.task

\* C21: a masked vxm task whose operators are those of the task before it,
\* the build of whose kernels failed, makes no build attempt.
C21_NoRebuildAfterFailure ==
    [][(vxm.status = "Error" /\ vxm'.task = vxm.task) => ~vxm'.built]_vars

\* C22: when masked vxm returns a non-Ok status because its kernels cannot be
\* built, r has no valid format, and mask, v and M hold what they held.
C22_FailedVxmInvalidatesR ==
    vxm.status = "Error" => vxm.r.valid = {}

\* C22, the operands: a failed masked vxm leaves the accelerator format of
\* mask, v and M valid beside the host one.
C22_OperandsKept ==
    vxm.status = "Error" =>
        /\ vxm.mask.valid = {"CpuDenseVec", "CLDenseVec"}
        /\ vxm.v.valid = {"CpuDenseVec", "CLDenseVec"}
        /\ vxm.M.valid = {"CpuCsr", "CLCsr"}

\* The ceiling of n / g clamped to [1, hi].
CeilClamped(n, g, hi) ==
    LET up == IF n % g = 0 THEN n \div g ELSE n \div g + 1
    IN  IF up < 1 THEN 1 ELSE IF up > hi THEN hi ELSE up

\* C23: the number of work groups dispatched is ceil(n / g) clamped to
\* [1, 256] in the masked assign and ceil(n / g) clamped to [1, 512] in the
\* masked vxm.
C23_GroupCounts ==
    dispatch.done =>
        /\ dispatch.assign = CeilClamped(dispatch.n, dispatch.g, 256)
        /\ dispatch.vxm = CeilClamped(dispatch.n, dispatch.g, 512)

\* C23 for the masked assign alone.
C23_AssignGroupCounts ==
    dispatch.done => dispatch.assign = CeilClamped(dispatch.n, dispatch.g, 256)

\* C23 for the masked vxm where g divides n or the clamp applies.
C23_VxmGroupCountsExact ==
    (dispatch.done /\ (dispatch.n % dispatch.g = 0 \/ dispatch.n \div dispatch.g >= 512)) =>
        dispatch.vxm = CeilClamped(dispatch.n, dispatch.g, 512)

\* C24: the storage manager is made at most once, and no worker calls
\* validate_* on a manager whose formats are not registered or that has been
\* destroyed.
C24_ManagerMadeOnce ==
    /\ manager.made <= 1
    /\ manager.unregistered = {}
    /\ manager.dangling = {}

\* C24 for a single calling worker.
C24_SingleWorker ==
    Cardinality({t \in Workers : manager.pc[t] # "idle"}) = 1 => C24_ManagerMadeOnce

\* C25: in the sub-task of block i, the permutation vector of b is the
\* identity 0..nnz(b)-1 whenever b's block exists, whether or not a's block
\* exists, and b's block is not read when it does not exist.
C25_PermBFromB ==
    \A i \in DOMAIN ewise.w :
        ewise.status[i] \notin {"idle", "none"} =>
            /\ ~ewise.b[i].null => ewise.permB[i] = IdentityPerm(Len(ewise.b[i].rows))
            /\ ~ewise.null_read[i]

\* C25 where both blocks exist: the permutation vector of b is the identity
\* over b's own entries.
C25_BothBlocks ==
    \A i \in DOMAIN ewise.w :
        (/\ ewise.status[i] \notin {"idle", "none"}
         /\ ~ewise.a[i].null /\ ~ewise.b[i].null) =>
            /\ ewise.permB[i] = IdentityPerm(Len(ewise.b[i].rows))
            /\ ~ewise.null_read[i]

\* The node before any of its sub-tasks ran.
BeforeSubTasks(t) ==
    [t EXCEPT !.w = t.w_old,
              !.status = [i \in DOMAIN t.w |-> "none"],
              !.permB = [i \in DOMAIN t.w |-> <<>>],
              !.null_read = [i \in DOMAIN t.w |-> FALSE]]

\* C30: there is one sub-task per block row of w; block i of w is as the node
\* found it until sub-task i has run, and from then on is what sub-task i
\* alone, run on the node as it was found, leaves there, whichever sub-tasks
\* ran before it.
C30_BlockIsolation ==
    /\ DOMAIN ewise.status = DOMAIN ewise.w
    /\ \A i \in DOMAIN ewise.w :
          IF ewise.status[i] = "none"
          THEN ewise.w[i] = ewise.w_old[i]
          ELSE \E crash \in BOOLEAN, garbage \in [1..EWLen -> GarbageVal] :
                  LET alone == ProcessBlock(BeforeSubTasks(ewise), i, crash, garbage)
                  IN  /\ ewise.w[i] = alone.w[i]
                      /\ ewise.status[i] = alone.status[i]

\* C30, two block rows: sub-task 2 has stored its block of w while sub-task 1
\* has not run, and the other way round is reached as well.
C30_SecondBeforeFirst ==
    /\ Len(ewise.w) = 2
    /\ ewise.status[1] = "none" /\ ewise.status[2] = "stored"
    /\ ewise.w[2] # ewise.w_old[2]
    /\ ewise.w[1] = ewise.w_old[1] /\ ~ewise.w[1].null

\* C27: point writes accumulate: a set_* that follows a set_* keeps every key
\* the matrix held, so that get_* of a key written before still finds it.
C27_PointWritesAccumulate ==
    [][(mat_io.op = "set" /\ mat_io'.op = "set") =>
          \A k \in 1..Len(mat.lil) :
              \E j \in 1..Len(mat'.lil) : SameKey(mat'.lil[j], mat.lil[k])]_vars

\* C27 for a single point write: get_* of the key written returns the value
\* written, get_* of any other key the fill value.
C27_LastWriteRead ==
    [][(mat_io.op = "set" /\ mat_io'.op = "get") =>
          mat_io'.value \in {mat.fill} \cup {mat.lil[k][3] : k \in 1..Len(mat.lil)}]_vars

\* What each variant of the last masked assign leaves in r for the logical
\* mask of the task: the sparse variant walks the entries that differ from
\* the fill value, the dense variant every index.
VariantOutcome(t, variant) ==
    LET r    == vec_validate_rwd([fill |-> 0, valid |-> {"CpuDense"}, coo |-> <<>>,
                                  dense |-> t.r_old], "CpuDense")
        mask == [fill |-> 0, valid |-> {"CpuDense"}, coo |-> <<>>, dense |-> t.mask_old]
    IN  IF variant = "sp2dn"
        THEN sp2dn_loop(r.dense, vec_dense_to_coo(mask), 1, t.op_assign, t.op_select, t.value)
        ELSE dn2dn_loop(r.dense, t.mask_old, 0, t.op_assign, t.op_select, t.value)

\* C28: the outcome of a masked assign is the one either variant gives for the
\* logical mask, whichever format of the mask is valid.
C28_VariantsAgree ==
    assign.status = "Ok" =>
        /\ assign.r.dense = VariantOutcome(assign, "sp2dn")
        /\ assign.r.dense = VariantOutcome(assign, "dn2dn")

\* C28 for a select predicate that does not hold on the fill value of the
\* mask.
C28_AgreeOffFill ==
    (assign.status = "Ok" /\ ~ApplySelect(assign.op_select, assign.mask.fill)) =>
        /\ assign.r.dense = VariantOutcome(assign, "sp2dn")
        /\ assign.r.dense = VariantOutcome(assign, "dn2dn")

\* A file whose data lines are as many as its header declares, all in range.
WellFormed(file) == Len(file.lines) = file.nnz /\ ~HasBadLine(file)

\* C29: Load on a loader that holds k > 0 triples keeps them in front of the
\* triples it reads, and for a well-formed input throws "Number of non zero
\* values is not valid".
C29_LoadAppends ==
    [][(load_io'.calls = load_io.calls + 1 /\ Len(loader.mRows) > 0
            /\ WellFormed(load_io'.file)) =>
          /\ load_io'.status = "NnzNotValid"
          /\ Len(loader'.mRows) = Len(loader.mRows)
                + Len(load_io'.file.lines)
                - (IF load_io'.removeSelfLoops
                   THEN Cardinality({k \in 1..Len(load_io'.file.lines) :
                            load_io'.file.lines[k][1] = load_io'.file.lines[k][2]})
                   ELSE 0)
          /\ SubSeq(loader'.mRows, 1, Len(loader.mRows)) = loader.mRows
          /\ SubSeq(loader'.mCols, 1, Len(loader.mCols)) = loader.mCols]_vars

\* C29, a second load: a loader that held triples was given a well-formed
\* file with data lines, threw, and holds the old and the new triples.
C29_SecondLoadThrew ==
    /\ load_io.calls = 2 /\ load_io.held > 0
    /\ WellFormed(load_io.file) /\ Len(load_io.file.lines) > 0
    /\ load_io.status = "NnzNotValid"
    /\ Len(loader.mRows) = load_io.held + Len(load_io.file.lines)

\* C26: vxm_atomic_scalar works no column before vxm_prepare has set every
\* r[j] to init; an r[j] the products were added to is init plus those
\* products from then on; and execute returns Ok only when both kernels have
\* worked every column and none is in flight.
C26_PrepareBeforeExec ==
    /\ queue.added # {} => (queue.prepared = 1..queue.n /\ "vxm_prepare" \notin queue.in_flight)
    /\ \A j \in queue.added : queue.Ax[j] = (queue.init + queue.sums[j]) % 4
    /\ queue.status = "Ok" =>
          /\ queue.in_flight = {}
          /\ queue.prepared = 1..queue.n /\ queue.added = 1..queue.n

\* C26, a finished product: execute has returned Ok over several columns,
\* every r[j] holding init plus its products.
C26_ReturnedOk ==
    /\ queue.status = "Ok" /\ queue.n > 1
    /\ \A j \in 1..queue.n : queue.Ax[j] = (queue.init + queue.sums[j]) % 4

====
